---- MODULE Spec2Model ----
(***************************************************************************)
(* A model of the two command-line tools of the repository:                *)
(*                                                                         *)
(*   commands/pdf-to-markdown.py          the converter chain (Docling,    *)
(*                                        PyPDF2, pdfplumber) and the      *)
(*                                        keyword section extractor        *)
(*   skills/async-testing-expert/                                          *)
(*     generate_test_template.py          the test-template stamper        *)
(*                                                                         *)
(* Text is a sequence of characters, each character a one-element string.  *)
(* A code point outside ASCII is written by its number, "U+0130".          *)
(* Offsets into text are Python's: offset p has p characters before it.    *)
(***************************************************************************)
EXTENDS Integers, Sequences, FiniteSets, TLC

VARIABLES
    content,        \* extractor: the text read from the markdown file
    parts,          \* extractor: the pieces the input text is made of
    sections,       \* extractor: the dict extract_resume_sections returns
    xpc,            \* extractor: position
    argv,           \* converter: sys.argv[1:], a sequence of paths
    inputExists,    \* converter: does the input path exist
    avail,          \* converter: which of the three libraries import
    doc,            \* converter: what the libraries extract from the input
    files,          \* converter: content of every path, NoFile if absent
    stdout,         \* converter: the messages printed so far
    attempts,       \* converter: every capability tried, with its outcome
    depth,          \* converter: retries of convert_with_docling
    markdown_path,  \* converter: the path convert_with_docling returned
    cpc,            \* converter: position
    exitCode,       \* converter: process exit status, -1 while it runs
    req,            \* stamper: module, layer, output_dir, entry point
    fs,             \* stamper: directories and files
    fs0,            \* stamper: the file system before the run
    answer,         \* stamper: what input() returned at the prompt
    spc,            \* stamper: position
    sexit           \* stamper: process exit status, -1 while it runs

xvars == <<content, parts, sections, xpc>>
cvars == <<argv, inputExists, avail, doc, files, stdout, attempts, depth,
           markdown_path, cpc, exitCode>>
svars == <<req, fs, fs0, answer, spc, sexit>>
vars == <<xvars, cvars, svars>>

Min(a, b) == IF a < b THEN a ELSE b

\* The least element of a non-empty set of integers.
Least(S) == CHOOSE x \in S : \A y \in S : x <= y

RECURSIVE Concat(_)
\* The concatenation of a sequence of sequences, in order.
Concat(ss) == IF ss = <<>> THEN <<>> ELSE Head(ss) \o Concat(Tail(ss))

(***************************************************************************)
(* Python str operations used by the two scripts.                          *)
(***************************************************************************)
UpperLetters ==
    <<"A", "B", "C", "D", "E", "F", "G", "H", "I", "J", "K", "L", "M",
      "N", "O", "P", "Q", "R", "S", "T", "U", "V", "W", "X", "Y", "Z">>
LowerLetters ==
    <<"a", "b", "c", "d", "e", "f", "g", "h", "i", "j", "k", "l", "m",
      "n", "o", "p", "q", "r", "s", "t", "u", "v", "w", "x", "y", "z">>
Digits == {"0", "1", "2", "3", "4", "5", "6", "7", "8", "9"}

IsUpper(c) == \E i \in DOMAIN UpperLetters : UpperLetters[i] = c
IsLower(c) == \E i \in DOMAIN LowerLetters : LowerLetters[i] = c
LetterIndex(c, letters) == CHOOSE i \in DOMAIN letters : letters[i] = c

\* str.lower() of one character.  U+0130 (capital I with dot above) is the
\* one code point whose lowercase is two code points, "i" and U+0307.
LowerChar(c) ==
    IF IsUpper(c) THEN <<LowerLetters[LetterIndex(c, UpperLetters)]>>
    ELSE IF c = "U+0130" THEN <<"i", "U+0307">>
    ELSE <<c>>

\* str.upper() of one ASCII character, as str.title() applies it.
UpperChar(c) ==
    IF IsLower(c) THEN UpperLetters[LetterIndex(c, LowerLetters)] ELSE c

\* str.lower()
Lower(s) == Concat([i \in 1..Len(s) |-> LowerChar(s[i])])

\* The characters str.strip() removes and the regex class \s matches.
Whitespace == {" ", "\n", "\t"}

\* str.strip()
Strip(s) ==
    LET keep == {i \in 1..Len(s) : s[i] \notin Whitespace}
    IN  IF keep = {} THEN <<>>
        ELSE SubSeq(s, Least(keep), Least({i \in keep : \A j \in keep : j <= i}))

\* The slice s[a:b] for 0 <= a, clamped to the length of s as Python does.
Slice(s, a, b) == SubSeq(s, a + 1, Min(b, Len(s)))

(***************************************************************************)
(* The regular expressions of extract_section.                             *)
(***************************************************************************)
\* The regex class \w on the characters of the model: str.isalnum() or "_".
IsWord(c) ==
    \/ IsUpper(c) \/ IsLower(c) \/ c \in Digits \/ c = "_"
    \/ c \in {"U+0130", "U+00DF", "U+00B5"}

\* The literal lit stands at offset p of s.
LitAt(s, p, lit) ==
    /\ p >= 0
    /\ p + Len(lit) <= Len(s)
    /\ \A i \in 1..Len(lit) : s[p + i] = lit[i]

\* The character at offset p of s is c.
CharAt(s, p, c) == p >= 0 /\ p < Len(s) /\ s[p + 1] = c

NoMatch == [start |-> -1, end |-> -1]

\* In an rf-string "{1,3}" is a replacement field: the tuple (1, 3), which
\* formats as "(1, 3)".  In the pattern that is a capturing group matching
\* the four characters "1, 3", and it is group 1 of the first pattern.
QuantifierField == <<"1", ",", " ", "3">>

\* #(1, 3)\s*KEYWORD.*?\n(.*?)(?=\n#(1, 3)|\Z) matched at offset i:
\* the span of group 1, or NoMatch.  The lazy (.*?) and its lookahead
\* always match, at the latest at the end of the text (\Z).
MarkdownPatternAt(s, keyword, i) ==
    IF ~LitAt(s, i, <<"#">> \o QuantifierField) THEN NoMatch
    ELSE
      LET j  == i + 1 + Len(QuantifierField)
          \* \s* is greedy: the longest run of whitespace that lets the
          \* keyword follow, then .*? up to the first newline after it
          ws == {w \in 0..(Len(s) - j) :
                    /\ \A k \in 1..w : s[j + k] \in Whitespace
                    /\ LitAt(s, j + w, keyword)
                    /\ \E a \in 0..Len(s) : CharAt(s, j + w + Len(keyword) + a, "\n")}
      IN  IF ws = {} THEN NoMatch
          ELSE [start |-> i + 1, end |-> i + 1 + Len(QuantifierField)]

\* (?=\n\w+.*?\n[-=]+|\Z) at offset p
UnderlineLookahead(s, p) ==
    \/ /\ CharAt(s, p, "\n")
       /\ p + 1 < Len(s) /\ IsWord(s[p + 2])
       /\ \E q \in (p + 2)..(Len(s) - 2) :
             CharAt(s, q, "\n") /\ s[q + 2] \in {"-", "="}
    \/ p = Len(s)

\* \nKEYWORD.*?\n[-=]+\n(.*?)(?=\n\w+.*?\n[-=]+|\Z) matched at offset i
UnderlinePatternAt(s, keyword, i) ==
    IF ~(CharAt(s, i, "\n") /\ LitAt(s, i + 1, keyword)) THEN NoMatch
    ELSE
      LET k == i + 1 + Len(keyword)
          \* offsets g where the group can start: a newline, a run of
          \* "-" or "=" and a newline end right before g
          gs == {g \in (k + 3)..Len(s) :
                   /\ CharAt(s, g - 1, "\n")
                   /\ \E r \in 1..(g - 2 - k) :
                        /\ \A x \in 1..r : s[g - 1 - r + x] \in {"-", "="}
                        /\ CharAt(s, g - 2 - r, "\n")}
      IN  IF gs = {} THEN NoMatch
          ELSE LET g == Least(gs)
               IN  [start |-> g,
                    end   |-> Least({e \in g..Len(s) : UnderlineLookahead(s, e)})]

\* (?=\n\w+.*?:|\Z) at offset p
ColonLookahead(s, p) ==
    \/ /\ CharAt(s, p, "\n")
       /\ p + 1 < Len(s) /\ IsWord(s[p + 2])
       /\ \E q \in (p + 2)..(Len(s) - 1) : CharAt(s, q, ":")
    \/ p = Len(s)

\* \nKEYWORD.*?:\n(.*?)(?=\n\w+.*?:|\Z) matched at offset i
ColonPatternAt(s, keyword, i) ==
    IF ~(CharAt(s, i, "\n") /\ LitAt(s, i + 1, keyword)) THEN NoMatch
    ELSE
      LET k  == i + 1 + Len(keyword)
          gs == {g \in (k + 2)..Len(s) :
                   CharAt(s, g - 2, ":") /\ CharAt(s, g - 1, "\n")}
      IN  IF gs = {} THEN NoMatch
          ELSE LET g == Least(gs)
               IN  [start |-> g,
                    end   |-> Least({e \in g..Len(s) : ColonLookahead(s, e)})]

\* The three patterns, in the order of the list in extract_section.
PatternAt(n, s, keyword, i) ==
    CASE n = 1 -> MarkdownPatternAt(s, keyword, i)
      [] n = 2 -> UnderlinePatternAt(s, keyword, i)
      [] n = 3 -> ColonPatternAt(s, keyword, i)

NumPatterns == 3

\* re.search: the match at the leftmost offset where the pattern matches.
Search(n, s, keyword) ==
    LET at == {i \in 0..Len(s) : PatternAt(n, s, keyword, i) # NoMatch}
    IN  IF at = {} THEN NoMatch ELSE PatternAt(n, s, keyword, Least(at))

(***************************************************************************)
(* The keyword lists of extract_resume_sections, as the source file holds  *)
(* them (its accented keywords are stored as the code points below).       *)
(***************************************************************************)
contact_keywords ==
    << <<"c", "o", "n", "t", "a", "c", "t">>,
       <<"c", "o", "n", "t", "a", "t", "o">>,
       <<"e", "m", "a", "i", "l">>,
       <<"p", "h", "o", "n", "e">> >>
experience_keywords ==
    << <<"e", "x", "p", "e", "r", "i", "e", "n", "c", "e">>,
       <<"e", "x", "p", "e", "r", "i", "U+221A", "U+2122", "n", "c", "i", "a">>,
       <<"w", "o", "r", "k">>,
       <<"t", "r", "a", "b", "a", "l", "h", "o">>,
       <<"p", "r", "o", "f", "e", "s", "s", "i", "o", "n", "a", "l">> >>
education_keywords ==
    << <<"e", "d", "u", "c", "a", "t", "i", "o", "n">>,
       <<"e", "d", "u", "c", "a", "U+221A", "U+00DF", "U+221A", "U+00A3", "o">>,
       <<"f", "o", "r", "m", "a", "U+221A", "U+00DF", "U+221A", "U+00A3", "o">>,
       <<"a", "c", "a", "d", "e", "m", "i", "c">> >>
skills_keywords ==
    << <<"s", "k", "i", "l", "l", "s">>,
       <<"h", "a", "b", "i", "l", "i", "d", "a", "d", "e", "s">>,
       <<"c", "o", "m", "p", "e", "t", "U+221A", "U+2122", "n", "c", "i", "a", "s">>,
       <<"t", "e", "c", "h", "n", "o", "l", "o", "g", "i", "e", "s">>,
       <<"f", "e", "r", "r", "a", "m", "e", "n", "t", "a", "s">> >>
languages_keywords ==
    << <<"l", "a", "n", "g", "u", "a", "g", "e", "s">>,
       <<"i", "d", "i", "o", "m", "a", "s">>,
       <<"l", "U+221A", "U+2260", "n", "g", "u", "a", "s">> >>
certifications_keywords ==
    << <<"c", "e", "r", "t", "i", "f", "i", "c", "a", "t", "i", "o", "n", "s">>,
       <<"c", "e", "r", "t", "i", "f", "i", "c", "a", "U+221A", "U+00DF", "U+221A", "U+00B5", "e", "s">>,
       <<"c", "e", "r", "t", "i", "f", "i", "c", "a", "t", "e", "s">> >>
projects_keywords ==
    << <<"p", "r", "o", "j", "e", "c", "t", "s">>,
       <<"p", "r", "o", "j", "e", "t", "o", "s">>,
       <<"p", "o", "r", "t", "f", "o", "l", "i", "o">> >>
SectionNames ==
    {"contact", "experience", "education", "skills", "languages", "certifications", "projects"}

Keywords(section) ==
    CASE section = "contact" -> contact_keywords
      [] section = "experience" -> experience_keywords
      [] section = "education" -> education_keywords
      [] section = "skills" -> skills_keywords
      [] section = "languages" -> languages_keywords
      [] section = "certifications" -> certifications_keywords
      [] section = "projects" -> projects_keywords

(***************************************************************************)
(* Input texts: a preamble, a heading and its body, and optionally a       *)
(* second heading and body.                                                *)
(***************************************************************************)
\* the empty text
NoText ==
    <<>>

\* a document title line
TitleLine ==
    <<"#", " ", "R", "e", "s", "u", "m", "e", "\n">>

\* a name line that starts with U+0130
NameLine ==
    <<"U+0130", "p", "e", "k", "\n">>

\* the heading line "## Experience"
MarkdownExperience ==
    <<"#", "#", " ", "E", "x", "p", "e", "r", "i", "e", "n", "c", "e",
      "\n">>

\* the heading line "Experience:"
ColonExperience ==
    <<"E", "x", "p", "e", "r", "i", "e", "n", "c", "e", ":", "\n">>

\* the heading "Experience" underlined
UnderlinedExperience ==
    <<"E", "x", "p", "e", "r", "i", "e", "n", "c", "e", "\n", "-", "-",
      "-", "\n">>

\* the heading line "## Education"
MarkdownEducation ==
    <<"#", "#", " ", "E", "d", "u", "c", "a", "t", "i", "o", "n", "\n">>

\* the heading line "SKILLS:"
ColonSkills ==
    <<"S", "K", "I", "L", "L", "S", ":", "\n">>

\* the line "#1, 3 Experience", which the first pattern matches
TupleExperience ==
    <<"#", "1", ",", " ", "3", " ", "E", "x", "p", "e", "r", "i", "e", "n",
      "c", "e", "\n">>

\* a one-line body
PlainBody ==
    <<"A", "c", "m", "e", " ", "C", "o", "r", "p", "\n">>

\* a body with blanks around it
PaddedBody ==
    <<" ", " ", "D", "e", "v", " ", "a", "t", " ", "A", "c", "m", "e", " ",
      "\n", "\n">>

\* a body of two lines with colons
FieldBody ==
    <<"R", "o", "l", "e", ":", " ", "D", "e", "v", "\n", "T", "e", "a",
      "m", ":", " ", "C", "o", "r", "e", "\n">>

(***************************************************************************)
(* extract_section and extract_resume_sections.                            *)
(***************************************************************************)
NoHit == [keyword |-> 0, pattern |-> 0, start |-> -1, end |-> -1]

\* The loops of extract_section: keywords in list order, for each keyword
\* the patterns in list order, searched in the lowercased copy of the
\* content; the first (keyword, pattern) that matches, with the span of
\* its group 1.
FirstHit(text, keywords) ==
    LET content_lower == Lower(text)
        rank(k, n) == (k - 1) * NumPatterns + n
        hits == {kn \in (DOMAIN keywords) \X (1..NumPatterns) :
                    Search(kn[2], content_lower, keywords[kn[1]]) # NoMatch}
    IN  IF hits = {} THEN NoHit
        ELSE LET kn == CHOOSE h \in hits :
                          \A o \in hits : rank(h[1], h[2]) <= rank(o[1], o[2])
                 m  == Search(kn[2], content_lower, keywords[kn[1]])
             IN  [keyword |-> kn[1], pattern |-> kn[2],
                  start |-> m.start, end |-> m.end]

\* The span of the hit, cut out of the text it is given and stripped.
ReturnedText(text, hit) == Strip(Slice(text, hit.start, hit.end))

extract_section(text, keywords) ==
    LET hit == FirstHit(text, keywords)
    IN  IF hit = NoHit THEN <<>> ELSE ReturnedText(text, hit)

extract_resume_sections(text) ==
    [name \in SectionNames |-> extract_section(text, Keywords(name))]

Preambles == {NoText, TitleLine, NameLine}
Headings == {MarkdownExperience, ColonExperience, UnderlinedExperience,
             MarkdownEducation, ColonSkills, TupleExperience}
Bodies == {PlainBody, PaddedBody, FieldBody}

NoSections == [name \in SectionNames |-> <<>>]

\* extract_resume_sections(markdown_path) on a file that holds content
ExtractResumeSections ==
    /\ xpc = "start"
    /\ sections' = extract_resume_sections(content)
    /\ xpc' = "done"
    /\ UNCHANGED <<content, parts>>

(***************************************************************************)
(* The converter chain: convert_with_docling, fallback_pdf_conversion and  *)
(* main of pdf-to-markdown.py.                                             *)
(***************************************************************************)
\* f"# Resume - Converted from PDF\n\n{text}" without the text
SyntheticHeading ==
    <<"#", " ", "R", "e", "s", "u", "m", "e", " ", "-", " ", "C", "o", "n",
      "v", "e", "r", "t", "e", "d", " ", "f", "r", "o", "m", " ", "P", "D",
      "F", "\n", "\n">>

\* the text of a page
PageA ==
    <<"S", "k", "i", "l", "l", "s", ":", "\n", "G", "o", "\n">>

\* the text of another page
PageB ==
    <<"A", "d", "a", "\n">>

\* a page from which the library extracts no text ("" from PyPDF2, None
\* from pdfplumber)
NoPageText == <<"None">>

\* what result.document.export_to_markdown() returns for the input
DoclingMarkdown ==
    <<"#", " ", "A", "d", "a", "\n", "S", "k", "i", "l", "l", "s", ":",
      "\n", "G", "o", "\n">>

\* No document has more pages than this.
MaxPages == 2

\* convert_with_docling calls itself after every pip install; the
\* interpreter raises RecursionError beyond this many nested retries.
MaxDepth == 1

\* A path is the sequence of the dot-separated pieces of its file name.
PdfPaths == {<<"resume", "pdf">>, <<"cv">>}
GivenOutputs == {<<"out", "txt">>}

\* Path.with_suffix('.md'): the last suffix replaced, or added if the name
\* has none.
with_suffix_md(path) ==
    IF Len(path) > 1 THEN SubSeq(path, 1, Len(path) - 1) \o <<"md">>
    ELSE path \o <<"md">>

Paths == GivenOutputs \cup {with_suffix_md(p) : p \in PdfPaths}

NoFile == <<"absent">>
OldContent == <<"o", "l", "d">>
None == <<"None">>

pdf_path == argv[1]
\* sys.argv[2] if len(sys.argv) > 2 else None
output_path == IF Len(argv) > 1 THEN argv[2] ELSE None

\* "if output_path is None: output_path = pdf_file.with_suffix('.md')"
ResolvedOutput(pdf, out) == IF out = None THEN with_suffix_md(pdf) ELSE out

\* text += page.extract_text()  /  text += page.extract_text() or ""
PageText(page) == IF page = NoPageText THEN <<>> ELSE page

\* The loop with "text = page.extract_text() + text": the pages reversed.
FallbackMarkdownReversed(pages) ==
    SyntheticHeading
       \o Concat([i \in 1..Len(pages) |-> PageText(pages[Len(pages) + 1 - i])])

\* The loop with "text = page.extract_text()": the last page alone.
FallbackMarkdownLastPage(pages) ==
    SyntheticHeading
       \o (IF pages = <<>> THEN <<>> ELSE PageText(pages[Len(pages)]))

\* The loop over the pages and the f-string after it.
FallbackMarkdown(pages) ==
    SyntheticHeading \o Concat([i \in 1..Len(pages) |-> PageText(pages[i])])

\* The status of sys.exit(1) in main's handler.
MainErrorStatus == 1
\* The status of sys.exit(1) when no library is left.
NoLibraryStatus == 1
\* The status of sys.exit(1) after the usage text.
UsageStatus == 1

\* What a file holds when writing text to it was interrupted.
Truncations(text) == {SubSeq(text, 1, k) : k \in 0..(Len(text) - 1)}

Attempt(cap, outcome) == [cap |-> cap, outcome |-> outcome]

PageSeqs == UNION {[1..n -> {PageA, PageB, NoPageText}] : n \in 0..MaxPages}

\* main, lines 183-190: the usage text, or the call of convert_with_docling
MainStart ==
    /\ cpc = "main"
    /\ IF Len(argv) < 1
       THEN /\ stdout' = Append(stdout, "usage")
            /\ exitCode' = UsageStatus
            /\ cpc' = "done"
       ELSE /\ cpc' = "docling_import"
            /\ UNCHANGED <<stdout, exitCode>>
    /\ UNCHANGED <<argv, inputExists, avail, doc, files, attempts, depth,
                   markdown_path>>

\* "from docling import DocumentConverter" and, if it fails, the first
\* line of the ImportError handler
ImportDocling ==
    /\ cpc = "docling_import"
    /\ IF avail["docling"]
       THEN /\ cpc' = "docling_convert"
            /\ UNCHANGED <<stdout, attempts>>
       ELSE /\ stdout' = Append(stdout, "docling_not_installed")
            /\ attempts' = Append(attempts, Attempt("docling", "ImportError"))
            /\ cpc' = "pip_install"
    /\ UNCHANGED <<argv, inputExists, avail, doc, files, depth, markdown_path,
                   exitCode>>

\* Where control goes when pip fails: CalledProcessError is raised inside
\* the ImportError handler, so no handler of convert_with_docling sees it.
AfterPipFailure == "main_except"

\* subprocess.check_call([... "pip", "install", "docling"]) and the retry
PipInstall ==
    /\ cpc = "pip_install"
    /\ \E installed \in BOOLEAN, importable \in BOOLEAN :
          IF ~installed
          THEN /\ cpc' = AfterPipFailure
               /\ UNCHANGED <<avail, depth>>
          ELSE IF depth >= MaxDepth
          THEN \* RecursionError, raised inside the ImportError handler
               /\ cpc' = "main_except"
               /\ avail' = [avail EXCEPT !["docling"] = importable]
               /\ UNCHANGED depth
          ELSE /\ cpc' = "docling_import"
               /\ avail' = [avail EXCEPT !["docling"] = importable]
               /\ depth' = depth + 1
    /\ UNCHANGED <<argv, inputExists, doc, files, stdout, attempts,
                   markdown_path, exitCode>>

\* The body of the try block of convert_with_docling after the import,
\* with the handler the exception it raises reaches.
DoclingConvert ==
    /\ cpc = "docling_convert"
    /\ LET out == ResolvedOutput(pdf_path, output_path)
       IN  IF ~inputExists
           THEN \* raise FileNotFoundError, caught by "except Exception"
                /\ attempts' = Append(attempts, Attempt("docling", "FileNotFoundError"))
                /\ stdout' = stdout \o <<"docling_error", "falling_back">>
                /\ cpc' = "fallback"
                /\ UNCHANGED <<files, markdown_path>>
           ELSE
             \/ \* converted and written
                /\ files' = [files EXCEPT ![out] = doc.markdown]
                /\ attempts' = Append(attempts, Attempt("docling", "ok"))
                /\ stdout' = stdout \o <<"converting", "docling_ok">>
                /\ markdown_path' = out
                /\ cpc' = "sections"
             \/ \* DocumentConverter(), convert() or open() raises
                /\ attempts' = Append(attempts, Attempt("docling", "Exception"))
                /\ stdout' = stdout \o <<"converting", "docling_error", "falling_back">>
                /\ cpc' = "fallback"
                /\ UNCHANGED <<files, markdown_path>>
             \/ \* the library raises ImportError for a part it lacks
                /\ attempts' = Append(attempts, Attempt("docling", "ImportError"))
                /\ stdout' = stdout \o <<"converting", "docling_not_installed">>
                /\ cpc' = "pip_install"
                /\ UNCHANGED <<files, markdown_path>>
             \/ \* f.write() raises with the file open for writing
                /\ \E partial \in Truncations(doc.markdown) :
                      files' = [files EXCEPT ![out] = partial]
                /\ attempts' = Append(attempts, Attempt("docling", "Exception"))
                /\ stdout' = stdout \o <<"converting", "docling_error", "falling_back">>
                /\ cpc' = "fallback"
                /\ UNCHANGED markdown_path
    /\ UNCHANGED <<argv, inputExists, avail, doc, depth, exitCode>>

\* The try block of fallback_pdf_conversion (PyPDF2).  The function runs
\* inside the "except Exception" handler of convert_with_docling, so what
\* it raises reaches main.
FallbackPyPDF2 ==
    /\ cpc = "fallback"
    /\ LET out == ResolvedOutput(pdf_path, output_path)
       IN  IF ~avail["PyPDF2"]
           THEN /\ attempts' = Append(attempts, Attempt("PyPDF2", "ImportError"))
                /\ cpc' = "pdfplumber"
                /\ UNCHANGED <<files, stdout, markdown_path>>
           ELSE IF ~inputExists
           THEN \* open(pdf_path, 'rb') raises FileNotFoundError
                /\ attempts' = Append(attempts, Attempt("PyPDF2", "FileNotFoundError"))
                /\ cpc' = "main_except"
                /\ UNCHANGED <<files, stdout, markdown_path>>
           ELSE
             \/ /\ files' = [files EXCEPT ![out] = FallbackMarkdown(doc.pages)]
                /\ attempts' = Append(attempts, Attempt("PyPDF2", "ok"))
                /\ stdout' = Append(stdout, "fallback_ok")
                /\ markdown_path' = out
                /\ cpc' = "sections"
             \/ \* PdfReader, extract_text() or open() raises
                /\ attempts' = Append(attempts, Attempt("PyPDF2", "Exception"))
                /\ cpc' = "main_except"
                /\ UNCHANGED <<files, stdout, markdown_path>>
             \/ \* f.write() raises with the file open for writing
                /\ \E partial \in Truncations(FallbackMarkdown(doc.pages)) :
                      files' = [files EXCEPT ![out] = partial]
                /\ attempts' = Append(attempts, Attempt("PyPDF2", "Exception"))
                /\ cpc' = "main_except"
                /\ UNCHANGED <<stdout, markdown_path>>
    /\ UNCHANGED <<argv, inputExists, avail, doc, depth, exitCode>>

\* The ImportError handler of fallback_pdf_conversion (pdfplumber) and the
\* handler inside it.
FallbackPdfplumber ==
    /\ cpc = "pdfplumber"
    /\ LET out == ResolvedOutput(pdf_path, output_path)
       IN  IF ~avail["pdfplumber"]
           THEN /\ attempts' = Append(attempts, Attempt("pdfplumber", "ImportError"))
                /\ stdout' = stdout \o <<"no_library", "install_one_of", "run_pip">>
                /\ exitCode' = NoLibraryStatus
                /\ cpc' = "done"
                /\ UNCHANGED <<files, markdown_path>>
           ELSE IF ~inputExists
           THEN \* pdfplumber.open(pdf_path) raises FileNotFoundError
                /\ attempts' = Append(attempts, Attempt("pdfplumber", "FileNotFoundError"))
                /\ cpc' = "main_except"
                /\ UNCHANGED <<files, stdout, markdown_path, exitCode>>
           ELSE
             \/ /\ files' = [files EXCEPT ![out] = FallbackMarkdown(doc.pages)]
                /\ attempts' = Append(attempts, Attempt("pdfplumber", "ok"))
                /\ stdout' = Append(stdout, "pdfplumber_ok")
                /\ markdown_path' = out
                /\ cpc' = "sections"
                /\ UNCHANGED exitCode
             \/ /\ attempts' = Append(attempts, Attempt("pdfplumber", "Exception"))
                /\ cpc' = "main_except"
                /\ UNCHANGED <<files, stdout, markdown_path, exitCode>>
             \/ /\ \E partial \in Truncations(FallbackMarkdown(doc.pages)) :
                      files' = [files EXCEPT ![out] = partial]
                /\ attempts' = Append(attempts, Attempt("pdfplumber", "Exception"))
                /\ cpc' = "main_except"
                /\ UNCHANGED <<stdout, markdown_path, exitCode>>
    /\ UNCHANGED <<argv, inputExists, avail, doc, depth>>

\* main, lines 197-203: the sections of the written file are extracted and
\* previewed, and main returns
MainSections ==
    /\ cpc = "sections"
    /\ \/ /\ content' = files[markdown_path]
          /\ sections' = extract_resume_sections(files[markdown_path])
          /\ stdout' = Append(stdout, "extracted_sections")
          /\ exitCode' = 0
          /\ cpc' = "done"
       \/ \* reading or printing raises
          /\ cpc' = "main_except"
          /\ UNCHANGED <<content, sections, stdout, exitCode>>
    /\ UNCHANGED <<parts, xpc>>
    /\ UNCHANGED <<argv, inputExists, avail, doc, files, attempts, depth,
                   markdown_path>>

\* The handler without its sys.exit(1): the error is printed and main
\* returns.
MainExceptReturns ==
    /\ cpc = "main_except"
    /\ stdout' = Append(stdout, "error")
    /\ exitCode' = 0
    /\ cpc' = "done"
    /\ UNCHANGED <<argv, inputExists, avail, doc, files, attempts, depth,
                   markdown_path>>

\* main, lines 205-207: "except Exception"
MainExcept ==
    /\ cpc = "main_except"
    /\ stdout' = Append(stdout, "error")
    /\ exitCode' = MainErrorStatus
    /\ cpc' = "done"
    /\ UNCHANGED <<argv, inputExists, avail, doc, files, attempts, depth,
                   markdown_path>>

(***************************************************************************)
(* The template stamper: generate_test and main of                         *)
(* generate_test_template.py.                                              *)
(***************************************************************************)
\* The keys of the templates dict of generate_test.
Templates == {"dao", "service", "router"}
\* choices=['dao', 'service', 'router'] of the --layer argument.
LayerChoices == {"dao", "service", "router"}

\* The layer check left out.
AnyLayer(layer) == TRUE

\* "layer not in templates" is false
KnownLayer(layer) == layer \in Templates

\* A cased character, for str.title().
IsCased(c) == IsUpper(c) \/ IsLower(c)

\* str.title(): a letter is upper-cased after a character that is no
\* letter, lower-cased after a letter.
Title(s) ==
    [i \in 1..Len(s) |->
        IF ~IsCased(s[i]) THEN s[i]
        ELSE IF i > 1 /\ IsCased(s[i - 1]) THEN LowerChar(s[i])[1]
        ELSE UpperChar(s[i])]

\* str.replace('_', '')
RemoveUnderscores(s) ==
    LET keep(c) == c # "_" IN SelectSeq(s, keep)

\* module.title().replace('_', '')
module_title(module) == RemoveUnderscores(Title(module))
\* module.lower()
table_name(module) == Lower(module)

\* template.format(module=..., module_title=..., table_name=...): the
\* template of the layer with its three fields filled in.
FormattedTemplate(module, layer) ==
    [template |-> layer, module |-> module,
     module_title |-> module_title(module), table_name |-> table_name(module)]

\* Path(output_dir) / f'test_{module}_{layer}.py'
TargetPath(module, layer, output_dir) ==
    [dir |-> output_dir,
     name |-> <<"t", "e", "s", "t", "_">> \o module \o <<"_", layer, ".py">>]

\* output_path.parent.mkdir(parents=True, exist_ok=True): the directory
\* and every missing parent of it.
WithParents(dir) == {SubSeq(dir, 1, n) : n \in 1..Len(dir)}

\* The prompt with "input().lower() == 'n'".
DeclinesOnlyOnN(reply) == Lower(reply) = <<"n">>

\* "input().lower() != 'y'"
Declines(reply) == Lower(reply) # <<"y">>

ModuleNames == {<<"u", "s", "e", "r">>, <<"a", "p", "i", "_", "k", "e", "y">>,
                <<"D", "B">>}
LayerValues == Templates \cup {"unknown", "DAO"}
OutputDirs == {<<"tests">>, <<"out", "unit">>}
EndOfInput == <<"EOF">>
NoReply == <<"none">>
Replies == {<<"y">>, <<"Y">>, <<"n">>, <<"y", "e", "s">>, <<>>, <<" ", "y">>,
            EndOfInput}
OldTestFile == [template |-> "old"]

\* main: parser.parse_args() and the call of generate_test
StamperMain ==
    /\ spc = "main"
    /\ IF req.layer \in LayerChoices
       THEN spc' = "generate_test" /\ UNCHANGED sexit
       ELSE spc' = "done" /\ sexit' = 2
    /\ UNCHANGED <<req, fs, fs0, answer>>

\* generate_test up to the prompt: the layer check, the formatting of the
\* template and the test whether the target exists
GenerateTest ==
    /\ spc = "generate_test"
    /\ IF ~KnownLayer(req.layer)
       THEN spc' = "done" /\ sexit' = 1
       ELSE IF TargetPath(req.module, req.layer, req.output_dir) \in DOMAIN fs.files
       THEN spc' = "prompt" /\ UNCHANGED sexit
       ELSE spc' = "write" /\ UNCHANGED sexit
    /\ UNCHANGED <<req, fs, fs0, answer>>

\* The prompt: input() and the test of the reply
Prompt ==
    /\ spc = "prompt"
    /\ \E reply \in Replies :
          /\ answer' = reply
          /\ IF reply = EndOfInput
             THEN spc' = "done" /\ sexit' = 1     \* EOFError, uncaught
             ELSE IF Declines(reply)
             THEN spc' = "done" /\ sexit' = 0     \* "Aborted.", return
             ELSE spc' = "write" /\ UNCHANGED sexit
    /\ UNCHANGED <<req, fs, fs0>>

\* mkdir(parents=True, exist_ok=True), write_text(content) and the return
WriteTestFile ==
    /\ spc = "write"
    /\ LET target == TargetPath(req.module, req.layer, req.output_dir)
       IN  fs' = [dirs  |-> fs.dirs \cup WithParents(req.output_dir),
                  files |-> (target :> FormattedTemplate(req.module, req.layer))
                              @@ fs.files]
    /\ sexit' = 0
    /\ spc' = "done"
    /\ UNCHANGED <<req, fs0, answer>>

(***************************************************************************)
(* The three programs run on their own; each has its specification.        *)
(***************************************************************************)
InitExtractor ==
    /\ \E pre \in Preambles, h1 \in Headings, b1 \in Bodies,
          h2 \in Headings \cup {NoText}, b2 \in Bodies \cup {NoText} :
          /\ (h2 = NoText) <=> (b2 = NoText)
          /\ parts = [pre |-> pre, h1 |-> h1, b1 |-> b1, h2 |-> h2, b2 |-> b2]
          /\ content = pre \o h1 \o b1 \o h2 \o b2
    /\ sections = NoSections
    /\ xpc = "start"
    \* the converter and the stamper do not run
    /\ argv = <<>> /\ inputExists = FALSE
    /\ avail = [c \in {"docling", "PyPDF2", "pdfplumber"} |-> FALSE]
    /\ doc = [markdown |-> <<>>, pages |-> <<>>]
    /\ files = [p \in Paths |-> NoFile]
    /\ stdout = <<>> /\ attempts = <<>> /\ depth = 0 /\ markdown_path = None
    /\ cpc = "idle" /\ exitCode = -1
    /\ req = <<>> /\ fs = <<>> /\ fs0 = <<>> /\ answer = NoReply
    /\ spc = "idle" /\ sexit = -1

InitConverter ==
    /\ argv \in {<<>>} \cup {<<p>> : p \in PdfPaths}
                 \cup {<<p, o>> : p \in PdfPaths, o \in GivenOutputs}
    /\ inputExists \in BOOLEAN
    /\ avail \in [{"docling", "PyPDF2", "pdfplumber"} -> BOOLEAN]
    /\ doc \in [markdown : {DoclingMarkdown}, pages : PageSeqs]
    /\ \E old \in {NoFile, OldContent} :
          files = [p \in Paths |->
                     IF Len(argv) > 0 /\ p = ResolvedOutput(pdf_path, output_path)
                     THEN old ELSE NoFile]
    /\ stdout = <<>>
    /\ attempts = <<>>
    /\ depth = 0
    /\ markdown_path = None
    /\ cpc = "main"
    /\ exitCode = -1
    \* the extractor runs inside main only; the stamper does not run
    /\ content = <<>> /\ parts = <<>> /\ sections = NoSections /\ xpc = "idle"
    /\ req = <<>> /\ fs = <<>> /\ fs0 = <<>> /\ answer = NoReply
    /\ spc = "idle" /\ sexit = -1

InitStamper ==
    /\ req \in [module : ModuleNames, layer : LayerValues,
                output_dir : OutputDirs, cli : BOOLEAN]
    /\ \E n \in 0..Len(req.output_dir), targetExists \in BOOLEAN :
          /\ targetExists => n = Len(req.output_dir)
          /\ fs = [dirs  |-> {SubSeq(req.output_dir, 1, k) : k \in 1..n},
                   files |-> IF targetExists /\ KnownLayer(req.layer)
                             THEN [p \in {TargetPath(req.module, req.layer, req.output_dir)}
                                     |-> OldTestFile]
                             ELSE <<>>]
    /\ fs0 = fs
    /\ answer = NoReply
    /\ spc = IF req.cli THEN "main" ELSE "generate_test"
    /\ sexit = -1
    \* the converter and its extractor do not run
    /\ content = <<>> /\ parts = <<>> /\ sections = NoSections /\ xpc = "idle"
    /\ argv = <<>> /\ inputExists = FALSE
    /\ avail = [c \in {"docling", "PyPDF2", "pdfplumber"} |-> FALSE]
    /\ doc = [markdown |-> <<>>, pages |-> <<>>]
    /\ files = [p \in Paths |-> NoFile]
    /\ stdout = <<>> /\ attempts = <<>> /\ depth = 0 /\ markdown_path = None
    /\ cpc = "idle" /\ exitCode = -1

NextExtractor == ExtractResumeSections /\ UNCHANGED <<cvars, svars>>

NextConverter ==
    \/ MainStart /\ UNCHANGED <<xvars, svars>>
    \/ ImportDocling /\ UNCHANGED <<xvars, svars>>
    \/ PipInstall /\ UNCHANGED <<xvars, svars>>
    \/ DoclingConvert /\ UNCHANGED <<xvars, svars>>
    \/ FallbackPyPDF2 /\ UNCHANGED <<xvars, svars>>
    \/ FallbackPdfplumber /\ UNCHANGED <<xvars, svars>>
    \/ MainSections /\ UNCHANGED svars
    \/ MainExcept /\ UNCHANGED <<xvars, svars>>

NextStamper ==
    \/ StamperMain /\ UNCHANGED <<xvars, cvars>>
    \/ GenerateTest /\ UNCHANGED <<xvars, cvars>>
    \/ Prompt /\ UNCHANGED <<xvars, cvars>>
    \/ WriteTestFile /\ UNCHANGED <<xvars, cvars>>

SpecExtractor == InitExtractor /\ [][NextExtractor]_vars
SpecConverter == InitConverter /\ [][NextConverter]_vars
SpecStamper == InitStamper /\ [][NextStamper]_vars

(***************************************************************************)
(* Properties.                                                             *)
(***************************************************************************)
Last(s) == s[Len(s)]

\* The path the converter writes: the second argument, or the input's name
\* with its extension replaced by md.
ExpectedOutput ==
    IF Len(argv) > 1 THEN argv[2] ELSE <<argv[1][1], "md">>

RECURSIVE PagesInOrder(_)
\* The texts of the pages one after the other, first page first.
PagesInOrder(pages) ==
    IF pages = <<>> THEN <<>>
    ELSE (IF Head(pages) = NoPageText THEN <<>> ELSE Head(pages))
            \o PagesInOrder(Tail(pages))

\* No path has been created or written by the run.
OutputUntouched == \A p \in Paths : files[p] \in {NoFile, OldContent}

Tried(cap, outcome) ==
    \E i \in DOMAIN attempts : attempts[i] = Attempt(cap, outcome)

\* C1: a text with the heading line "## Experience" and a body that runs
\* up to the next Markdown heading or the end of the text yields that
\* body, stripped, as the experience section.
C1_MarkdownExperienceBody ==
    (/\ xpc = "done"
     /\ parts.h1 = MarkdownExperience
     /\ parts.h2 \in {NoText, MarkdownEducation})
    => sections["experience"] = Strip(parts.b1)

\* C2: when the keyword "experience" heads both a Markdown heading and a
\* colon heading, in either order, the experience section is the body
\* under the Markdown heading (which runs to the next Markdown heading or
\* the end), not the body under the colon heading.
C2_MarkdownPrecedence ==
    (/\ xpc = "done"
     /\ {parts.h1, parts.h2} = {MarkdownExperience, ColonExperience})
    => sections["experience"] =
          Strip(IF parts.h1 = MarkdownExperience
                THEN parts.b1 \o parts.h2 \o parts.b2
                ELSE parts.b2)

\* C9: whenever a section matches, the offsets found in the lowercased
\* copy select the matching characters of the original text: the returned
\* text, lowercased, is the captured group, stripped.
C9_OffsetsSelectTheCapture ==
    xpc = "done" =>
      \A name \in SectionNames :
         LET hit == FirstHit(content, Keywords(name))
         IN  hit # NoHit =>
               Lower(sections[name]) =
                  Strip(Slice(Lower(content), hit.start, hit.end))

\* C3: when Docling cannot be imported and PyPDF2 can, the run does not
\* end before PyPDF2 has been tried.
C3_UnavailablePrimaryFallsBack ==
    (/\ cpc = "done"
     /\ Len(argv) > 0
     /\ ~avail["docling"]
     /\ avail["PyPDF2"])
    => \E i \in DOMAIN attempts : attempts[i].cap = "PyPDF2"

\* C4: when none of the three libraries can be imported, the run ends with
\* a non-zero status after the message that names the three libraries to
\* install, and no output file has been created.
C4_TerminalFailure ==
    (/\ cpc = "done"
     /\ Len(argv) > 0
     /\ \A c \in DOMAIN avail : ~avail[c])
    => /\ exitCode > 0
       /\ \E i \in DOMAIN stdout : stdout[i] = "install_one_of"
       /\ OutputUntouched

\* C5: once Docling has raised during conversion and PyPDF2 has then
\* succeeded, the output path (the given one, or the input with its
\* extension replaced by md) holds the synthetic heading followed by the
\* text of every page in page order.
C5_FallbackWritesHeadingAndPages ==
    (/\ attempts # <<>>
     /\ Last(attempts) = Attempt("PyPDF2", "ok")
     /\ Tried("docling", "Exception"))
    => files[ExpectedOutput] = SyntheticHeading \o PagesInOrder(doc.pages)

C5_Witness ==
    /\ cpc = "done" /\ exitCode = 0
    /\ Last(attempts) = Attempt("PyPDF2", "ok")
    /\ Tried("docling", "Exception")
    /\ doc.pages = <<PageB, PageA>>
    /\ Len(argv) = 1

C10_NoErrorInSuccessfulRun ==
    exitCode = 0 =>
      /\ files[ExpectedOutput] \in
            {doc.markdown, SyntheticHeading \o PagesInOrder(doc.pages)}
      /\ ~\E i \in DOMAIN attempts : attempts[i].outcome = "Exception"

\* C10 amended: a run that ends with status 0 has written the complete text
\* of the capability that was tried last, and that capability was not
\* interrupted by an error.
C10_SuccessMeansCompleteOutput ==
    exitCode = 0 =>
      /\ attempts # <<>>
      /\ Last(attempts).outcome = "ok"
      /\ files[ExpectedOutput] =
            IF Last(attempts).cap = "docling" THEN doc.markdown
            ELSE SyntheticHeading \o PagesInOrder(doc.pages)

C10_Witness ==
    /\ exitCode = 0
    /\ Tried("docling", "Exception")
    /\ Last(attempts) = Attempt("pdfplumber", "ok")
    /\ Len(doc.pages) = MaxPages

\* C7: when the target exists and the reply at the prompt is anything but
\* "y" in either case, the file system is as it was before the run and
\* the status is 0.
C7_DeclinedOverwriteChangesNothing ==
    (/\ spc = "done"
     /\ answer \notin {NoReply, EndOfInput}
     /\ Lower(answer) # <<"y">>)
    => fs = fs0 /\ sexit = 0

C7_Witness ==
    /\ spc = "done"
    /\ answer = <<"y", "e", "s">>
    /\ TargetPath(req.module, req.layer, req.output_dir) \in DOMAIN fs0.files

\* C8: for a layer that is none of dao, service and router the file system
\* is never changed, and the run ends with a non-zero status.
C8_UnknownLayerRejectedFirst ==
    (spc # "idle" /\ req.layer \notin {"dao", "service", "router"})
    => /\ fs = fs0
       /\ spc = "done" => sexit > 0

C8_Witness ==
    /\ spc = "done" /\ req.layer = "unknown" /\ ~req.cli /\ sexit = 1
====
